---- MODULE Spec2Model ----
(***************************************************************************)
(* Model of orbit.py: two module-level pint quantities, four formula       *)
(* functions over pint quantities and numpy arrays, and the Orbit          *)
(* dataclass.                                                              *)
(*                                                                         *)
(* A float magnitude is modelled by the real number it approximates, kept  *)
(* exactly as n/d * 10^e, together with the IEEE-754 special values inf,   *)
(* -inf and nan that numpy produces on division by zero.  Rounding is not  *)
(* modelled: an equality below is an equality of the exact values, which   *)
(* the floats meet within rounding tolerance.  Signed zeros are one zero.  *)
(* A magnitude is a sequence of such numbers: length 1 for a scalar and    *)
(* length 3 for a vector; a length-1 operand broadcasts as in numpy.       *)
(* A unit is pint's units container: a map from unit name to exponent.     *)
(* A separation given as a bare ndarray, which the formulas only multiply   *)
(* and divide, is a quantity with the empty container.  Every mass         *)
(* argument is a Quantity, as annotated.                                   *)
(***************************************************************************)
EXTENDS Integers, Sequences, FiniteSets

\* ------------------------------------------------------------------ bounds
\* Mass magnitudes range over 0..MaxMass.
MaxMass == 2
\* Separation components range over -MaxC..MaxC.
MaxC == 2

\* ------------------------------------------------------- exact arithmetic
Abs(x) == IF x < 0 THEN -x ELSE x

Sgn(x) == IF x < 0 THEN -1 ELSE IF x > 0 THEN 1 ELSE 0

RECURSIVE GCD(_, _)
GCD(a, b) == IF b = 0 THEN a ELSE GCD(b, a % b)

LCM(a, b) == (a \div GCD(a, b)) * b

RECURSIVE Pow10(_)
Pow10(k) == IF k = 0 THEN 1 ELSE 10 * Pow10(k - 1)

Min(a, b) == IF a < b THEN a ELSE b

\* The canonical form of n/d * 10^e (n /= 0, gcd(n, d) = 1, d > 0): neither n
\* nor d is a multiple of 5, so equal values are equal records.
RECURSIVE Canon(_, _, _)
Canon(n, d, e) ==
    IF n % 10 = 0 THEN Canon(n \div 10, d, e + 1)
    ELSE IF n % 5 = 0 THEN Canon(n \div 5, d * 2, e + 1)
    ELSE IF d % 10 = 0 THEN Canon(n, d \div 10, e - 1)
    ELSE IF d % 5 = 0 THEN Canon(n * 2, d \div 5, e - 1)
    ELSE [k |-> "fin", n |-> n, d |-> d, e |-> e]

\* The finite number n/d * 10^e, d > 0.
Fin(n, d, e) ==
    IF n = 0 THEN [k |-> "fin", n |-> 0, d |-> 1, e |-> 0]
    ELSE LET g == GCD(Abs(n), d) IN Canon(n \div g, d \div g, e)

\* inf (s = 1) and -inf (s = -1).
Inf(s) == [k |-> "inf", n |-> s, d |-> 1, e |-> 0]

NaN == [k |-> "nan", n |-> 0, d |-> 1, e |-> 0]

Zero == Fin(0, 1, 0)

IsFinite(x) == x.k = "fin"

\* -1, 0 or 1 for a finite or infinite number.
Sign(x) == Sgn(x.n)

NumNeg(x) ==
    IF x.k = "nan" THEN NaN
    ELSE IF x.k = "inf" THEN Inf(-x.n)
    ELSE Fin(-x.n, x.d, x.e)

NumAbs(x) ==
    IF x.k = "nan" THEN NaN
    ELSE IF x.k = "inf" THEN Inf(1)
    ELSE Fin(Abs(x.n), x.d, x.e)

NumMul(x, y) ==
    IF x.k = "nan" \/ y.k = "nan" THEN NaN
    ELSE IF x.k = "inf" \/ y.k = "inf"
         THEN IF Sign(x) * Sign(y) = 0 THEN NaN ELSE Inf(Sign(x) * Sign(y))
    ELSE Fin(x.n * y.n, x.d * y.d, x.e + y.e)

\* IEEE-754 division: a finite nonzero number over zero is an infinity, 0/0 is
\* nan.  The zero divisors of this program (a square, a norm) are +0.
NumDiv(x, y) ==
    IF x.k = "nan" \/ y.k = "nan" THEN NaN
    ELSE IF x.k = "inf"
         THEN IF y.k = "inf" THEN NaN
              ELSE Inf(IF Sign(y) < 0 THEN -Sign(x) ELSE Sign(x))
    ELSE IF y.k = "inf" THEN Zero
    ELSE IF y.n = 0 THEN (IF x.n = 0 THEN NaN ELSE Inf(Sign(x)))
    ELSE Fin(x.n * y.d * Sgn(y.n), x.d * Abs(y.n), x.e - y.e)

NumAdd(x, y) ==
    IF x.k = "nan" \/ y.k = "nan" THEN NaN
    ELSE IF x.k = "inf"
         THEN IF y.k = "inf" /\ y.n # x.n THEN NaN ELSE x
    ELSE IF y.k = "inf" THEN y
    ELSE IF x.n = 0 THEN y
    ELSE IF y.n = 0 THEN x
    ELSE LET e == Min(x.e, y.e)
             a == x.n * Pow10(x.e - e)
             b == y.n * Pow10(y.e - e)
         IN Fin(a * y.d + b * x.d, x.d * y.d, e)

\* x < y for finite numbers.
NumLess(x, y) == Sign(NumAdd(y, NumNeg(x))) > 0

RECURSIVE NumPow(_, _)
NumPow(x, p) == IF p = 1 THEN x ELSE NumMul(x, NumPow(x, p - 1))

\* ---------------------------------------------------------- pint quantities
UnitNames == {"N", "kg", "m", "km", "s"}

\* The empty units container (a bare ndarray, or a dimensionless quantity).
NoUnits == [u \in UnitNames |-> 0]

Unit(name) == [u \in UnitNames |-> IF u = name THEN 1 ELSE 0]

UnitsMul(a, b) == [u \in UnitNames |-> a[u] + b[u]]

UnitsDiv(a, b) == [u \in UnitNames |-> a[u] - b[u]]

UnitsPow(a, p) == [u \in UnitNames |-> a[u] * p]

\* Exponents of [mass], [length], [time] of a units container.
Dimensionality(units) ==
    [mass   |-> units["N"] + units["kg"],
     length |-> units["N"] + units["m"] + units["km"],
     time   |-> units["s"] - 2 * units["N"]]

\* Decimal exponent of the factor from a units container to SI base units
\* (km = 10^3 m).
BaseExp(units) == 3 * units["km"]

Quantity(mag, units) == [tag |-> "Quantity", mag |-> mag, units |-> units]

\* The outcome of an operation that raised pint's DimensionalityError.
DimensionalityError == [tag |-> "DimensionalityError", mag |-> <<>>, units |-> NoUnits]

None == [tag |-> "None", mag |-> <<>>, units |-> NoUnits]

IsQuantity(q) == q.tag = "Quantity"

\* numpy broadcasting of a length-1 operand.
BLen(a, b) == IF Len(a) > Len(b) THEN Len(a) ELSE Len(b)

At(a, i) == IF Len(a) = 1 THEN a[1] ELSE a[i]

\* Quantity.__neg__
QNeg(q) == Quantity([i \in 1..Len(q.mag) |-> NumNeg(q.mag[i])], q.units)

\* Quantity.__mul__ on multiplicative units (every unit of UnitNames is one):
\* magnitudes multiply, unit exponents add.
QMul(p, q) ==
    Quantity([i \in 1..BLen(p.mag, q.mag) |-> NumMul(At(p.mag, i), At(q.mag, i))],
             UnitsMul(p.units, q.units))

\* Mutant of QDiv: the division of Python floats, where a zero divisor raises.
QDiv_ZeroDivisionError(p, q) ==
    IF \E i \in 1..Len(q.mag) : q.mag[i].k = "fin" /\ q.mag[i].n = 0
    THEN [tag |-> "ZeroDivisionError", mag |-> <<>>, units |-> NoUnits]
    ELSE Quantity([i \in 1..BLen(p.mag, q.mag) |-> NumDiv(At(p.mag, i), At(q.mag, i))],
                  UnitsDiv(p.units, q.units))

\* Quantity.__truediv__ over numpy magnitudes: division by zero yields inf or
\* nan (a RuntimeWarning, not an exception).
QDiv(p, q) ==
    Quantity([i \in 1..BLen(p.mag, q.mag) |-> NumDiv(At(p.mag, i), At(q.mag, i))],
             UnitsDiv(p.units, q.units))

\* Mutant of QAdd: the magnitudes are added without a look at the units.
QAdd_Unchecked(p, q) ==
    Quantity([i \in 1..BLen(p.mag, q.mag) |-> NumAdd(At(p.mag, i), At(q.mag, i))],
             p.units)

\* Quantity.__add__ of two quantities: equal units add directly; units of the same
\* dimensionality add after converting the right operand to the units of the
\* left; different dimensionalities raise DimensionalityError.
QAdd(p, q) ==
    IF Dimensionality(p.units) # Dimensionality(q.units) THEN DimensionalityError
    ELSE LET k == BaseExp(q.units) - BaseExp(p.units)
             conv(x) == IF IsFinite(x) THEN Fin(x.n, x.d, x.e + k) ELSE x
         IN Quantity([i \in 1..BLen(p.mag, q.mag) |->
                          NumAdd(At(p.mag, i), conv(At(q.mag, i)))],
                     p.units)

\* numpy.square: elementwise, units squared.
square(q) ==
    Quantity([i \in 1..Len(q.mag) |-> NumMul(q.mag[i], q.mag[i])], UnitsPow(q.units, 2))

\* numpy.power with an integer exponent p >= 1: elementwise, units to the p.
power(q, p) ==
    Quantity([i \in 1..Len(q.mag) |-> NumPow(q.mag[i], p)], UnitsPow(q.units, p))

\* The smallest decimal exponent among the nonzero components of x.
MinExp(x) ==
    LET S == {x[i].e : i \in {j \in 1..Len(x) : x[j].n # 0}}
    IN IF S = {} THEN 0 ELSE CHOOSE m \in S : \A k \in S : m <= k

RECURSIVE LcmDen(_, _)
LcmDen(x, i) == IF i = 0 THEN 1 ELSE LCM(x[i].d, LcmDen(x, i - 1))

RECURSIVE GcdAll(_, _)
GcdAll(a, i) == IF i = 0 THEN 0 ELSE GCD(Abs(a[i]), GcdAll(a, i - 1))

RECURSIVE SumSq(_, _)
SumSq(a, i) == IF i = 0 THEN 0 ELSE a[i] * a[i] + SumSq(a, i - 1)

IsSquare(s) == \E k \in 0..s : k * k = s

\* The square root of a perfect square.
ISqrt(s) == CHOOSE k \in 0..s : k * k = s

\* The Euclidean norm sqrt(sum(x_i^2)) of a sequence of numbers, computed on
\* the components scaled to coprime integers a_i / g over the common
\* denominator L * 10^-e.  Defined where the norm is rational.
NumNorm(x) ==
    IF \E i \in 1..Len(x) : x[i].k = "nan" THEN NaN
    ELSE IF \E i \in 1..Len(x) : x[i].k = "inf" THEN Inf(1)
    ELSE LET e == MinExp(x)
             L == LcmDen(x, Len(x))
             a == [i \in 1..Len(x) |->
                      IF x[i].n = 0 THEN 0
                      ELSE x[i].n * Pow10(x[i].e - e) * (L \div x[i].d)]
             g == GcdAll(a, Len(x))
         IN IF g = 0 THEN Zero
            ELSE Fin(g * ISqrt(SumSq([i \in 1..Len(x) |-> a[i] \div g], Len(x))), L, e)

\* Mutant of norm: the units are stripped from the result.
norm_Stripped(q) == Quantity(<<NumNorm(q.mag)>>, NoUnits)

\* numpy.linalg.norm on a quantity: a scalar of the same units.
norm(q) == Quantity(<<NumNorm(q.mag)>>, q.units)

\* ------------------------------------------------------------------- state
\* Threads that call the formula functions.
Callers == {1, 2}

FunctionNames == {"calculate_gravitational_force",
                  "calculate_gravitational_force_vector",
                  "calculate_gravitational_acceleration_vector",
                  "calculate_gravitation_acceleration_earth"}

OrbitFields == {"alpha", "eccen", "incln", "omega", "perig", "tperi"}

VARIABLES
    GRAVITATIONAL_CONSTANT,  \* module global, orbit.py:36
    EARTH_ACCEL_CONSTANT,    \* module global, orbit.py:39
    frames,                  \* per caller: the frame of its call in progress
    orbit,                   \* the Orbit instance constructed last, or None
    kwargs                   \* the keyword arguments of that construction

vars == <<GRAVITATIONAL_CONSTANT, EARTH_ACCEL_CONSTANT, frames, orbit, kwargs>>

\* Quantity(6.6743e-11, 'N * m ** 2 / kg ** 2')
G0 == Quantity(<<Fin(66743, 1, -15)>>,
               [u \in UnitNames |-> CASE u = "N" -> 1 [] u = "m" -> 2
                                      [] u = "kg" -> -2 [] OTHER -> 0])

\* Quantity(3.986018e5, 'km ** 3 / s ** 2')
MU0 == Quantity(<<Fin(3986018, 1, -1)>>,
                [u \in UnitNames |-> CASE u = "km" -> 3 [] u = "s" -> -2
                                       [] OTHER -> 0])

\* ------------------------------------------------------ formula functions
\* return -GRAVITATIONAL_CONSTANT * m_0 * m_1 / square(r)
calculate_gravitational_force(m_0, m_1, r) ==
    QDiv(QMul(QMul(QNeg(GRAVITATIONAL_CONSTANT), m_0), m_1), square(r))

\* return -GRAVITATIONAL_CONSTANT * m_0 * m_1 * r / power(norm(r), 3)
calculate_gravitational_force_vector(m_0, m_1, r) ==
    QDiv(QMul(QMul(QMul(QNeg(GRAVITATIONAL_CONSTANT), m_0), m_1), r),
         power(norm(r), 3))

\* return -GRAVITATIONAL_CONSTANT * (m_0 + m_1) * r / power(norm(r), 3)
\* The sum is evaluated before the norm; its DimensionalityError propagates.
calculate_gravitational_acceleration_vector(m_0, m_1, r) ==
    LET s == QAdd(m_0, m_1)
    IN IF ~IsQuantity(s) THEN s
       ELSE QDiv(QMul(QMul(QNeg(GRAVITATIONAL_CONSTANT), s), r), power(norm(r), 3))

\* Mutant of calculate_gravitation_acceleration_earth: the result scales with
\* m_0.
calculate_gravitation_acceleration_earth_Scaled(m_0, m_1, r) ==
    QDiv(QMul(QMul(QNeg(EARTH_ACCEL_CONSTANT), m_0), r), power(norm(r), 3))

\* return -EARTH_ACCEL_CONSTANT * r / power(norm(r), 3)
calculate_gravitation_acceleration_earth(m_0, m_1, r) ==
    QDiv(QMul(QNeg(EARTH_ACCEL_CONSTANT), r), power(norm(r), 3))

\* The value a call of fn returns, or the error it raises, when it runs alone.
Apply(fn, m_0, m_1, r) ==
    CASE fn = "calculate_gravitational_force" ->
             calculate_gravitational_force(m_0, m_1, r)
      [] fn = "calculate_gravitational_force_vector" ->
             calculate_gravitational_force_vector(m_0, m_1, r)
      [] fn = "calculate_gravitational_acceleration_vector" ->
             calculate_gravitational_acceleration_vector(m_0, m_1, r)
      [] fn = "calculate_gravitation_acceleration_earth" ->
             calculate_gravitation_acceleration_earth(m_0, m_1, r)

\* ---------------------------------------------- evaluation of a call, by step
\* The operands of the final division, in the order Python evaluates them.
\* Mutant of force_numerator: the sign is dropped.
force_numerator_Unsigned(m_0, m_1) ==
    QMul(QMul(GRAVITATIONAL_CONSTANT, m_0), m_1)

\* -GRAVITATIONAL_CONSTANT * m_0 * m_1
force_numerator(m_0, m_1) ==
    QMul(QMul(QNeg(GRAVITATIONAL_CONSTANT), m_0), m_1)

\* Mutant of force_vector_numerator: the sign is dropped.
force_vector_numerator_Unsigned(m_0, m_1, r) ==
    QMul(QMul(QMul(GRAVITATIONAL_CONSTANT, m_0), m_1), r)

\* -GRAVITATIONAL_CONSTANT * m_0 * m_1 * r
force_vector_numerator(m_0, m_1, r) ==
    QMul(QMul(QMul(QNeg(GRAVITATIONAL_CONSTANT), m_0), m_1), r)

\* Mutant of acceleration_numerator: the mass of the first body alone.
acceleration_numerator_TestMass(m_0, m_1, r) ==
    QMul(QMul(QNeg(GRAVITATIONAL_CONSTANT), m_0), r)

\* -GRAVITATIONAL_CONSTANT * (m_0 + m_1) * r; the sum may raise.
acceleration_numerator(m_0, m_1, r) ==
    LET s == QAdd(m_0, m_1)
    IN IF ~IsQuantity(s) THEN s
       ELSE QMul(QMul(QNeg(GRAVITATIONAL_CONSTANT), s), r)

\* -EARTH_ACCEL_CONSTANT * r
earth_numerator(r) == QMul(QNeg(EARTH_ACCEL_CONSTANT), r)

\* The left operand of the division of fn.
Numerator(fn, m_0, m_1, r) ==
    CASE fn = "calculate_gravitational_force" -> force_numerator(m_0, m_1)
      [] fn = "calculate_gravitational_force_vector" ->
             force_vector_numerator(m_0, m_1, r)
      [] fn = "calculate_gravitational_acceleration_vector" ->
             acceleration_numerator(m_0, m_1, r)
      [] fn = "calculate_gravitation_acceleration_earth" -> earth_numerator(r)

\* Mutant of Denominator: the vector forms divide by |r|^2.
Denominator_Square(fn, r) ==
    IF fn = "calculate_gravitational_force" THEN square(r) ELSE power(norm(r), 2)

\* The right operand: square(r), or power(norm(r), 3).
Denominator(fn, r) ==
    IF fn = "calculate_gravitational_force" THEN square(r) ELSE power(norm(r), 3)

IdleFrame == [pc |-> "idle", fn |-> "", m_0 |-> None, m_1 |-> None, r |-> None,
              num |-> None, den |-> None, result |-> None]

\* Caller c enters one of the functions with its arguments bound to the
\* parameters; the masses are drawn from M and the separation from S[fn].
Call(c, M, S) ==
    /\ frames[c].pc = "idle"
    /\ \E fn \in FunctionNames : \E m_0 \in M, m_1 \in M : \E r \in S[fn] :
           frames' = [frames EXCEPT ![c] =
                         [pc |-> "numer", fn |-> fn, m_0 |-> m_0, m_1 |-> m_1,
                          r |-> r, num |-> None, den |-> None, result |-> None]]
    /\ UNCHANGED <<GRAVITATIONAL_CONSTANT, EARTH_ACCEL_CONSTANT, orbit, kwargs>>

\* Mutant of EvalNumerator: the negation is done in place on the module
\* constant.
EvalNumerator_InPlace(c) ==
    /\ frames[c].pc = "numer"
    /\ LET f == frames[c]
           v == Numerator(f.fn, f.m_0, f.m_1, f.r)
       IN frames' = [frames EXCEPT ![c] =
                        IF IsQuantity(v)
                        THEN [f EXCEPT !.pc = "denom", !.num = v]
                        ELSE [f EXCEPT !.pc = "raised", !.result = v]]
    /\ GRAVITATIONAL_CONSTANT' = QNeg(GRAVITATIONAL_CONSTANT)
    /\ UNCHANGED <<EARTH_ACCEL_CONSTANT, orbit, kwargs>>

\* Caller c evaluates the left operand of the division; an exception ends
\* the call.
EvalNumerator(c) ==
    /\ frames[c].pc = "numer"
    /\ LET f == frames[c]
           v == Numerator(f.fn, f.m_0, f.m_1, f.r)
       IN frames' = [frames EXCEPT ![c] =
                        IF IsQuantity(v)
                        THEN [f EXCEPT !.pc = "denom", !.num = v]
                        ELSE [f EXCEPT !.pc = "raised", !.result = v]]
    /\ UNCHANGED <<GRAVITATIONAL_CONSTANT, EARTH_ACCEL_CONSTANT, orbit, kwargs>>

\* Caller c evaluates the right operand of the division.
EvalDenominator(c) ==
    /\ frames[c].pc = "denom"
    /\ frames' = [frames EXCEPT ![c].pc = "divide",
                                ![c].den = Denominator(frames[c].fn, frames[c].r)]
    /\ UNCHANGED <<GRAVITATIONAL_CONSTANT, EARTH_ACCEL_CONSTANT, orbit, kwargs>>

\* Caller c divides and returns.
Return(c) ==
    /\ frames[c].pc = "divide"
    /\ frames' = [frames EXCEPT ![c].pc = "done",
                                ![c].result = QDiv(frames[c].num, frames[c].den)]
    /\ UNCHANGED <<GRAVITATIONAL_CONSTANT, EARTH_ACCEL_CONSTANT, orbit, kwargs>>

\* Caller c drops the finished call and is free to call again.
Finish(c) ==
    /\ frames[c].pc \in {"done", "raised"}
    /\ frames' = [frames EXCEPT ![c] = IdleFrame]
    /\ UNCHANGED <<GRAVITATIONAL_CONSTANT, EARTH_ACCEL_CONSTANT, orbit, kwargs>>

\* ------------------------------------------------------------------- Orbit
\* Mutant of Orbit: eccen defaults to a zero eccentricity.
Orbit_ZeroDefault(kw) ==
    [f \in OrbitFields |->
        IF f \in DOMAIN kw THEN kw[f]
        ELSE IF f = "eccen" THEN Quantity(<<Zero>>, NoUnits) ELSE None]

\* The dataclass-generated __init__: each field takes its keyword argument,
\* or the class default None.
Orbit(kw) == [f \in OrbitFields |-> IF f \in DOMAIN kw THEN kw[f] ELSE None]

\* Orbit(**kw)
Construct(kw) ==
    /\ orbit' = Orbit(kw)
    /\ kwargs' = kw
    /\ UNCHANGED <<GRAVITATIONAL_CONSTANT, EARTH_ACCEL_CONSTANT, frames>>

\* ------------------------------------------------------------------ inputs
Mag(k) == <<Fin(k, 1, 0)>>

\* Mass arguments, each a Quantity: masses, and lengths and dimensionless
\* quantities passed where a mass is expected.
Masses == {Quantity(Mag(k), u) : k \in 0..MaxMass,
                                 u \in {Unit("kg"), Unit("m"), Unit("km"), NoUnits}}

\* Units of a separation argument: lengths, a time, and none (an ndarray).
SepUnits == {Unit("m"), Unit("km"), Unit("s"), NoUnits}

ScalarSeps == {Quantity(Mag(k), u) : k \in -MaxC..MaxC, u \in SepUnits}

\* Integer vectors of integer Euclidean length.
Vectors == {v \in [1..3 -> -MaxC..MaxC] : IsSquare(v[1] * v[1] + v[2] * v[2] + v[3] * v[3])}

VectorSeps == {Quantity([i \in 1..3 |-> Fin(v[i], 1, 0)], u) : v \in Vectors, u \in SepUnits}

Seps == [fn \in FunctionNames |->
            IF fn = "calculate_gravitational_force" THEN ScalarSeps ELSE VectorSeps]

\* Field values of an Orbit: a legitimate zero and a length.
OrbitValues == {Quantity(Mag(0), NoUnits), Quantity(Mag(1), Unit("km"))}

KwargSets == UNION {[S -> OrbitValues] : S \in SUBSET OrbitFields}

\* Arguments of the concurrent callers.
ConcMasses == {Quantity(Mag(1), Unit("kg")), Quantity(Mag(2), Unit("kg")),
               Quantity(Mag(1), Unit("m"))}

ConcSeps == [fn \in FunctionNames |->
    IF fn = "calculate_gravitational_force"
    THEN {Quantity(Mag(0), Unit("m")), Quantity(Mag(2), Unit("m"))}
    ELSE {Quantity([i \in 1..3 |-> Fin(0, 1, 0)], Unit("km")),
          Quantity(<<Fin(1, 1, 0), Fin(-2, 1, 0), Fin(2, 1, 0)>>, Unit("km"))}]

\* ---------------------------------------------------------- specifications
Init ==
    /\ GRAVITATIONAL_CONSTANT = G0
    /\ EARTH_ACCEL_CONSTANT = MU0
    /\ frames = [c \in Callers |-> IdleFrame]
    /\ orbit = [f \in OrbitFields |-> None]
    /\ kwargs = None

\* One caller, all arguments.
Next ==
    \/ Call(1, Masses, Seps)
    \/ EvalNumerator(1)
    \/ EvalDenominator(1)
    \/ Return(1)
    \/ Finish(1)

Spec == Init /\ [][Next]_vars

\* Concurrent callers, interleaved step by step.
NextConc ==
    \E c \in Callers :
        \/ Call(c, ConcMasses, ConcSeps)
        \/ EvalNumerator(c)
        \/ EvalDenominator(c)
        \/ Return(c)
        \/ Finish(c)

SpecConc == Init /\ [][NextConc]_vars

\* Constructions of Orbit.
NextOrbit == \E kw \in KwargSets : Construct(kw)

SpecOrbit == Init /\ [][NextOrbit]_vars

\* ------------------------------------------------------------------ claims
MassDim == [mass |-> 1, length |-> 0, time |-> 0]

LengthDim == [mass |-> 0, length |-> 1, time |-> 0]

ForceDim == [mass |-> 1, length |-> 1, time |-> -2]

AccelDim == [mass |-> 0, length |-> 1, time |-> -2]

IsMass(q) == Dimensionality(q.units) = MassDim

IsLength(q) == Dimensionality(q.units) = LengthDim

\* |r| = 0
IsZeroSep(r) == \A i \in 1..Len(r.mag) : r.mag[i].n = 0

Positive(q) == q.mag[1].n > 0

\* abs() of a quantity
QAbs(q) == Quantity([i \in 1..Len(q.mag) |-> NumAbs(q.mag[i])], q.units)

\* Caller c has returned from fn.
Returned(c, fn) == frames[c].pc = "done" /\ frames[c].fn = fn

\* Caller c has returned from fn, called with two mass quantities.
ReturnedM(c, fn) ==
    Returned(c, fn) /\ IsMass(frames[c].m_0) /\ IsMass(frames[c].m_1)

VectorFunctions == FunctionNames \ {"calculate_gravitational_force"}

\* C1 as stated: for all masses and separation vectors, the acceleration
\* vector scaled by m_1 equals the force vector, component by component.
C1_Original ==
    \A c \in Callers :
        ReturnedM(c, "calculate_gravitational_acceleration_vector") =>
            LET f == frames[c]
            IN QMul(f.result, f.m_1)
                   = calculate_gravitational_force_vector(f.m_0, f.m_1, f.r)

\* C1 amended: for all masses and nonzero separation vectors, the
\* acceleration vector scaled by m_0 * m_1 equals the force vector scaled by
\* m_0 + m_1, component by component.
C1_Amended ==
    \A c \in Callers :
        (/\ ReturnedM(c, "calculate_gravitational_acceleration_vector")
         /\ ~IsZeroSep(frames[c].r)) =>
            LET f == frames[c]
            IN QMul(QMul(f.result, f.m_0), f.m_1)
                   = QMul(calculate_gravitational_force_vector(f.m_0, f.m_1, f.r),
                          QAdd(f.m_0, f.m_1))

C1_Witness ==
    \E c \in Callers :
        /\ ReturnedM(c, "calculate_gravitational_acceleration_vector")
        /\ Positive(frames[c].m_0) /\ Positive(frames[c].m_1)
        /\ frames[c].m_0 # frames[c].m_1
        /\ frames[c].r.mag[1].n # 0 /\ frames[c].r.mag[2].n # 0
        /\ frames[c].result.mag[1].n < 0

\* C2 as stated: for all masses and all separation vectors r, the norm of the
\* force vector equals the magnitude of the scalar force at |r|.
C2_Original ==
    \A c \in Callers :
        ReturnedM(c, "calculate_gravitational_force_vector") =>
            LET f == frames[c]
            IN norm(f.result)
                   = QAbs(calculate_gravitational_force(f.m_0, f.m_1, norm(f.r)))

\* C2 amended: for all masses and all nonzero separation vectors r, the norm of
\* the force vector equals the magnitude of the scalar force at |r|.
C2_Amended ==
    \A c \in Callers :
        (/\ ReturnedM(c, "calculate_gravitational_force_vector")
         /\ ~IsZeroSep(frames[c].r)) =>
            LET f == frames[c]
            IN norm(f.result)
                   = QAbs(calculate_gravitational_force(f.m_0, f.m_1, norm(f.r)))

C2_Witness ==
    \E c \in Callers :
        /\ ReturnedM(c, "calculate_gravitational_force_vector")
        /\ Positive(frames[c].m_0) /\ Positive(frames[c].m_1)
        /\ frames[c].r.mag[1].n # 0 /\ frames[c].r.mag[2].n # 0
        /\ norm(frames[c].r).mag[1] = Fin(3, 1, 0)
        /\ Positive(norm(frames[c].result))

\* Scalar separations in the units of r.
SameUnitSeps(r) == {x \in ScalarSeps : x.units = r.units}

\* |force(m_0, m_1, rb)| < |force(m_0, m_1, ra)|
WeakerAt(m_0, m_1, ra, rb) ==
    NumLess(NumAbs(calculate_gravitational_force(m_0, m_1, rb).mag[1]),
            NumAbs(calculate_gravitational_force(m_0, m_1, ra).mag[1]))

\* C3 as stated: for positive masses and a nonzero scalar separation the force
\* is negative, and for nonzero separations r_a < r_b the magnitude at r_b is
\* strictly smaller than the magnitude at r_a.
C3_Original ==
    \A c \in Callers :
        (/\ ReturnedM(c, "calculate_gravitational_force")
         /\ Positive(frames[c].m_0) /\ Positive(frames[c].m_1)
         /\ ~IsZeroSep(frames[c].r)) =>
            LET f == frames[c]
            IN /\ Sign(f.result.mag[1]) = -1
               /\ f.result = calculate_gravitational_force(f.m_0, f.m_1, f.r)
               /\ \A rb \in SameUnitSeps(f.r) :
                      (~IsZeroSep(rb) /\ NumLess(f.r.mag[1], rb.mag[1])) =>
                          WeakerAt(f.m_0, f.m_1, f.r, rb)

\* C3 amended: for positive masses and a nonzero scalar separation the force
\* is negative, and for nonzero separations with |r_a| < |r_b| the magnitude
\* at r_b is strictly smaller than the magnitude at r_a.
C3_Amended ==
    \A c \in Callers :
        (/\ ReturnedM(c, "calculate_gravitational_force")
         /\ Positive(frames[c].m_0) /\ Positive(frames[c].m_1)
         /\ ~IsZeroSep(frames[c].r)) =>
            LET f == frames[c]
            IN /\ Sign(f.result.mag[1]) = -1
               /\ f.result = calculate_gravitational_force(f.m_0, f.m_1, f.r)
               /\ \A rb \in SameUnitSeps(f.r) :
                      NumLess(NumAbs(f.r.mag[1]), NumAbs(rb.mag[1])) =>
                          WeakerAt(f.m_0, f.m_1, f.r, rb)

C3_Witness ==
    \E c \in Callers :
        /\ ReturnedM(c, "calculate_gravitational_force")
        /\ Positive(frames[c].m_0) /\ Positive(frames[c].m_1)
        /\ frames[c].r.mag[1] = Fin(-1, 1, 0)
        /\ IsLength(frames[c].r)
        /\ \E rb \in SameUnitSeps(frames[c].r) : rb.mag[1] = Fin(2, 1, 0)
        /\ Sign(frames[c].result.mag[1]) = -1

\* C4: the Earth acceleration does not depend on its mass arguments: for every
\* separation vector, a call with either mass replaced by any other returns the
\* same result, -mu_Earth * r / |r|^3.
C4_MassInvariance ==
    \A c \in Callers :
        Returned(c, "calculate_gravitation_acceleration_earth") =>
            LET f == frames[c]
            IN /\ \A m \in Masses :
                      /\ calculate_gravitation_acceleration_earth(m, f.m_1, f.r) = f.result
                      /\ calculate_gravitation_acceleration_earth(f.m_0, m, f.r) = f.result
               /\ f.result = QDiv(QMul(QNeg(MU0), f.r), power(norm(f.r), 3))

C4_Witness ==
    \E c \in Callers :
        /\ Returned(c, "calculate_gravitation_acceleration_earth")
        /\ frames[c].m_0 # frames[c].m_1
        /\ Positive(frames[c].m_0)
        /\ frames[c].r.units = Unit("km")
        /\ frames[c].result.mag[1].k = "fin" /\ frames[c].result.mag[1].n < 0

\* C5: constructing an Orbit with any subset of its six fields supplied stores
\* each supplied value in its own field and leaves every other field None.
C5_PartialConstruction ==
    kwargs # None =>
        \A f \in OrbitFields :
            orbit[f] = IF f \in DOMAIN kwargs THEN kwargs[f] ELSE None

\* Orbit(eccen=0): the supplied zero is stored, the other five fields are None.
C5_Witness ==
    /\ kwargs # None
    /\ DOMAIN kwargs = {"eccen"}
    /\ orbit["eccen"] = Quantity(Mag(0), NoUnits)
    /\ \A f \in OrbitFields \ {"eccen"} : orbit[f] = None

\* C6: at zero separation each of the four functions returns (no exception);
\* every component of the returned quantity is inf, -inf or nan.
C6_ZeroSeparation ==
    \A c \in Callers :
        (/\ frames[c].pc \in {"done", "raised"}
         /\ IsMass(frames[c].m_0) /\ IsMass(frames[c].m_1)
         /\ IsZeroSep(frames[c].r)) =>
            /\ frames[c].pc = "done"
            /\ IsQuantity(frames[c].result)
            /\ Len(frames[c].result.mag) = Len(frames[c].r.mag)
            /\ \A i \in 1..Len(frames[c].result.mag) :
                   ~IsFinite(frames[c].result.mag[i])

\* A scalar call at r = 0 that returned -inf.
C6_Witness ==
    \E c \in Callers :
        /\ ReturnedM(c, "calculate_gravitational_force")
        /\ IsZeroSep(frames[c].r)
        /\ frames[c].result.mag = <<Inf(-1)>>

\* C7: with mass arguments of dimension [mass] and a separation of dimension
\* [length], both force functions return a quantity of dimension
\* [mass][length]/[time]^2 and both acceleration functions one of dimension
\* [length]/[time]^2.
C7_Dimensions ==
    \A c \in Callers :
        (/\ frames[c].pc = "done"
         /\ IsMass(frames[c].m_0) /\ IsMass(frames[c].m_1)
         /\ IsLength(frames[c].r)) =>
            Dimensionality(frames[c].result.units) =
                IF frames[c].fn \in {"calculate_gravitational_force",
                                     "calculate_gravitational_force_vector"}
                THEN ForceDim ELSE AccelDim

\* A force vector over a separation in km: newton * meter^2 / kilometer^2.
C7_Witness ==
    \E c \in Callers :
        /\ ReturnedM(c, "calculate_gravitational_force_vector")
        /\ frames[c].r.units = Unit("km")
        /\ frames[c].result.units["km"] = -2
        /\ Dimensionality(frames[c].result.units) = ForceDim

\* The arguments of the call of caller c do not all have the dimensions the
\* formula expects.
Mismatched(c) ==
    ~IsMass(frames[c].m_0) \/ ~IsMass(frames[c].m_1) \/ ~IsLength(frames[c].r)

\* C8 as stated: a call whose separation is not a length, or whose masses are
\* not masses, ends in an error.
C8_Original ==
    \A c \in Callers :
        (frames[c].pc \in {"done", "raised"} /\ Mismatched(c)) =>
            frames[c].pc = "raised"

\* C8 amended: a call of calculate_gravitational_acceleration_vector whose
\* mass arguments are quantities of different dimensions ends in an error (the
\* sum m_0 + m_1 raises) instead of returning a value.
C8_Amended ==
    \A c \in Callers :
        (/\ frames[c].pc \in {"done", "raised"}
         /\ frames[c].fn = "calculate_gravitational_acceleration_vector"
         /\ Dimensionality(frames[c].m_0.units)
                # Dimensionality(frames[c].m_1.units)) =>
            /\ frames[c].pc = "raised"
            /\ ~IsQuantity(frames[c].result)

\* A mass in kg added to a dimensionless quantity, over a separation that is
\* a length: raised.
C8_Witness ==
    \E c \in Callers :
        /\ frames[c].fn = "calculate_gravitational_acceleration_vector"
        /\ frames[c].m_0.units = Unit("kg") /\ frames[c].m_1.units = NoUnits
        /\ Positive(frames[c].m_0) /\ Positive(frames[c].m_1)
        /\ IsLength(frames[c].r) /\ ~IsZeroSep(frames[c].r)
        /\ frames[c].pc = "raised"
        /\ frames[c].result = DimensionalityError

\* A finished call holds what the function returns, or raises, when run alone
\* on the same arguments, and the module constants have their initial values.
C9_Results ==
    /\ GRAVITATIONAL_CONSTANT = G0
    /\ EARTH_ACCEL_CONSTANT = MU0
    /\ \A c \in Callers :
           frames[c].pc \in {"done", "raised"} =>
               frames[c].result =
                   Apply(frames[c].fn, frames[c].m_0, frames[c].m_1, frames[c].r)

\* No step changes a module constant or an argument of a call in progress.
C9_Step ==
    /\ GRAVITATIONAL_CONSTANT' = GRAVITATIONAL_CONSTANT
    /\ EARTH_ACCEL_CONSTANT' = EARTH_ACCEL_CONSTANT
    /\ \A c \in Callers :
           (frames[c].pc # "idle" /\ frames'[c].pc # "idle") =>
               /\ frames'[c].fn = frames[c].fn
               /\ frames'[c].m_0 = frames[c].m_0
               /\ frames'[c].m_1 = frames[c].m_1
               /\ frames'[c].r = frames[c].r

\* C9: under any interleaving of concurrent calls, each call returns the result
\* it returns when run alone on the same arguments, and no call changes
\* GRAVITATIONAL_CONSTANT, EARTH_ACCEL_CONSTANT or any argument.
C9_Pure == [](C9_Results) /\ [][C9_Step]_vars

\* Two calls of different functions in flight at once: one has returned while
\* the other is between its reads of the constants and its division.
C9_Witness ==
    /\ frames[1].pc = "done" /\ frames[2].pc = "divide"
    /\ frames[1].fn = "calculate_gravitation_acceleration_earth"
    /\ frames[2].fn = "calculate_gravitational_force_vector"
    /\ ~IsZeroSep(frames[1].r)

\* C10: for positive masses and a nonzero separation vector r the result of
\* each vector function is r times a strictly negative scalar: parallel to r,
\* every component zero where r's is zero and of the opposite sign otherwise.
C10_TowardOrigin ==
    \A c \in Callers :
        (/\ frames[c].pc = "done"
         /\ frames[c].fn \in VectorFunctions
         /\ IsMass(frames[c].m_0) /\ IsMass(frames[c].m_1)
         /\ Positive(frames[c].m_0) /\ Positive(frames[c].m_1)
         /\ ~IsZeroSep(frames[c].r)) =>
            LET v == frames[c].result.mag
                r == frames[c].r.mag
            IN /\ Len(v) = 3
               /\ \A i \in 1..3 : IsFinite(v[i]) /\ Sign(v[i]) = -Sign(r[i])
               /\ \A i, j \in 1..3 : NumMul(v[i], r[j]) = NumMul(v[j], r[i])

\* The Earth acceleration along +x: negative x-component, zero y and z.
C10_Witness ==
    \E c \in Callers :
        /\ Returned(c, "calculate_gravitation_acceleration_earth")
        /\ IsMass(frames[c].m_0) /\ IsMass(frames[c].m_1)
        /\ Positive(frames[c].m_0) /\ Positive(frames[c].m_1)
        /\ frames[c].r = Quantity(<<Fin(2, 1, 0), Zero, Zero>>, Unit("km"))
        /\ Sign(frames[c].result.mag[1]) = -1
        /\ frames[c].result.mag[2] = Zero /\ frames[c].result.mag[3] = Zero

====
